---- MODULE Spec2Model ----
(***************************************************************************)
(* LivepushManager (lib/utils/device/live.ts): settle-wait on the device   *)
(* state, construction of one monitored container per buildable service,   *)
(* and the handling of filesystem events (classification, actionsNeeded,   *)
(* performActions).                                                        *)
(*                                                                         *)
(* JavaScript runs each callback to its next await without interleaving,   *)
(* so every action below is one such run-to-completion segment.  The       *)
(* for-loop of init has no await: its iterations are modelled one by one,  *)
(* and no filesystem event is delivered while the loop is running.         *)
(***************************************************************************)
EXTENDS Naturals, Sequences, FiniteSets

\* ---------------------------------------------------------------- bounds
\* The provider reports a non-'applied' state on at most MaxApplying calls.
MaxApplying == 1
\* Number of filesystem events delivered in one behaviour.
MaxEvents == 2

\* ------------------------------------------------------------- constants
DEVICE_STATUS_SETTLE_CHECK_INTERVAL == 500

ServiceNames == {"web", "db"}
\* Key orders of composition.services (for-in visits keys in insertion order).
ServiceOrders == {<<"web", "db">>, <<"db", "web">>}

NoDockerfile == "null"
GoodDockerfile == "FROM node"
BadDockerfile == "FRM node"
Dockerfiles == {GoodDockerfile, BadDockerfile}

\* Event kinds the three monitor callbacks pass, and one kind outside the
\* ContextEvent type, which reaches the default branch of the switch.
KnownTypes == {"add", "change", "unlink"}
EventTypes == KnownTypes \cup {"addDir"}
Filenames == {"app.js"}

\* What livepush.actionsNeeded may return (DockerfileActionGroup lists).
ActionLists == {<<>>, <<"group1", "group2">>}

NullStatus == [appState |-> "null", containers |-> {}]
NoError == "none"

VARIABLES
    \* constructor arguments and the device (inputs, never changed)
    services,         \* key order of composition.services
    build,            \* build[s]: composition.services[s].build != null
    buildTasks,       \* set of [serviceName, dockerfile]
    applyingCalls,    \* getStatus reports 'applying' on its first applyingCalls calls
    statusFails,      \* the call after those rejects instead of reporting 'applied'
    running,          \* services with a container in the device state
    \* LivepushManager fields
    lastDeviceStatus,
    containers,       \* [serviceName -> MonitoredContainer]
    \* init / awaitDeviceStateSettle control state
    initPc,           \* "new", "getStatus", "delay", "loop", "done", "failed"
    initError,
    index,            \* position of the for-in loop in services
    statusCalls,      \* number of api.getStatus() calls made
    monitors,         \* chokidar watchers with their three callbacks registered
    \* handleFSEvent invocations, in order of arrival
    handlers,         \* [event, pc, error]
    queries,          \* per invocation: the actionsNeeded calls made
    performs,         \* per invocation: the performActions calls made
    livepushLog       \* per invocation: logLivepush messages

vars == <<services, build, buildTasks, applyingCalls, statusFails, running,
          lastDeviceStatus, containers, initPc, initError, index, statusCalls,
          monitors, handlers, queries, performs, livepushLog>>

inputs == <<services, build, buildTasks, applyingCalls, statusFails, running>>
initState == <<lastDeviceStatus, containers, initPc, initError, index,
               statusCalls, monitors>>
eventState == <<handlers, queries, performs, livepushLog>>

\* --------------------------------------------------------------- helpers
ContainerId(s, call) == <<s, call>>

\* The snapshot api.getStatus() resolves with on its call-th call.
StatusAt(call) ==
    [appState   |-> IF call <= applyingCalls THEN "applying" ELSE "applied",
     containers |-> {[serviceName |-> s, containerId |-> ContainerId(s, call)] :
                        s \in running}]

\* path.join(this.buildContext, service.build.context)
PathJoin(a, b) == <<a, b>>
BuildContext == "/project"
ServiceContext(s) == PathJoin(BuildContext, s)

HasBuildTask(s) == \E t \in buildTasks : t.serviceName = s
FindBuildTask(s) == CHOOSE t \in buildTasks : t.serviceName = s

HasContainer(status, s) == \E c \in status.containers : c.serviceName = s
FindContainer(status, s) == CHOOSE c \in status.containers : c.serviceName = s

\* new Livepush(dockerfile, context, containerId, docker) throws when the
\* dockerfile cannot be parsed.
LivepushThrows(dockerfile) == dockerfile = BadDockerfile
NewLivepush(dockerfile, context, containerId) ==
    [dockerfile |-> dockerfile, context |-> context, containerId |-> containerId]

NewMonitor(s, context) ==
    [serviceName |-> s, cwd |-> context, ignoreInitial |-> TRUE]

Put_Dropped(map, key, value) == map

Put(map, key, value) ==
    [k \in DOMAIN map \cup {key} |-> IF k = key THEN value ELSE map[k]]

\* this.lastDeviceStatus.appState === 'applied'
Settled_FirstSnapshot(status) == status.appState # "null"
Settled(status) == status.appState = "applied"

\* service.build != null ("We don't need to care about images")
DeclaresBuild_Always(s) == TRUE
DeclaresBuild(s) == build[s]

\* ------------------------------------------------------------------ Init
TaskSets ==
    {{[serviceName |-> s, dockerfile |-> d[s]] : s \in with} :
        with \in SUBSET ServiceNames,
        d \in [ServiceNames -> Dockerfiles \cup {NoDockerfile}]}

Init ==
    /\ services \in ServiceOrders
    /\ build \in [ServiceNames -> BOOLEAN]
    /\ buildTasks \in TaskSets
    /\ applyingCalls \in 0..MaxApplying
    /\ statusFails \in BOOLEAN
    /\ running \in SUBSET ServiceNames
    /\ lastDeviceStatus = NullStatus
    /\ containers = <<>>
    /\ initPc = "new"
    /\ initError = NoError
    /\ index = 1
    /\ statusCalls = 0
    /\ monitors = {}
    /\ handlers = <<>>
    /\ queries = <<>>
    /\ performs = <<>>
    /\ livepushLog = <<>>

\* ------------------------------------------- init / awaitDeviceStateSettle
\* init() up to the first await: awaitDeviceStateSettle issues getStatus.
InitCall ==
    /\ initPc = "new"
    /\ initPc' = "getStatus"
    /\ statusCalls' = statusCalls + 1
    /\ UNCHANGED <<inputs, lastDeviceStatus, containers, initError, index,
                   monitors, eventState>>

\* getStatus resolves: cache the snapshot; return when 'applied', else delay.
GetStatusResolve ==
    /\ initPc = "getStatus"
    /\ ~(statusFails /\ statusCalls = applyingCalls + 1)
    /\ lastDeviceStatus' = StatusAt(statusCalls)
    /\ initPc' = IF Settled(lastDeviceStatus') THEN "loop" ELSE "delay"
    /\ UNCHANGED <<inputs, containers, initError, index, statusCalls,
                   monitors, eventState>>

GetStatusReject_Retries ==
    /\ initPc = "getStatus"
    /\ statusFails /\ statusCalls = applyingCalls + 1
    /\ initPc' = "delay"
    /\ UNCHANGED <<inputs, lastDeviceStatus, containers, initError, index,
                   statusCalls, monitors, eventState>>

\* getStatus rejects: the rejection propagates through every await to init.
GetStatusReject ==
    /\ initPc = "getStatus"
    /\ statusFails /\ statusCalls = applyingCalls + 1
    /\ initPc' = "failed"
    /\ initError' = "IOError"
    /\ UNCHANGED <<inputs, lastDeviceStatus, containers, index, statusCalls,
                   monitors, eventState>>

\* Bluebird.delay elapses: awaitDeviceStateSettle calls itself.
DelayElapsed ==
    /\ initPc = "delay"
    /\ initPc' = "getStatus"
    /\ statusCalls' = statusCalls + 1
    /\ UNCHANGED <<inputs, lastDeviceStatus, containers, initError, index,
                   monitors, eventState>>

InitThrow(error) ==
    /\ initPc' = "failed"
    /\ initError' = error
    /\ UNCHANGED <<lastDeviceStatus, containers, index, statusCalls, monitors>>

InitNext ==
    /\ index' = index + 1
    /\ initPc' = IF index = Len(services) THEN "done" ELSE "loop"
    /\ UNCHANGED <<initError, lastDeviceStatus, statusCalls>>

\* One iteration of the for-in loop over composition.services.
InitVisit ==
    /\ initPc = "loop"
    /\ index <= Len(services)
    /\ LET serviceName == services[index] IN
        IF ~HasBuildTask(serviceName)
        THEN InitThrow("Could not find a build task")
        ELSE IF ~DeclaresBuild(serviceName)
        THEN InitNext /\ UNCHANGED <<containers, monitors>>
        ELSE LET context    == ServiceContext(serviceName)
                 dockerfile == FindBuildTask(serviceName).dockerfile
             IN
             IF dockerfile = NoDockerfile
             THEN InitThrow("Could not detect dockerfile")
             ELSE IF ~HasContainer(lastDeviceStatus, serviceName)
             THEN InitThrow("Could not find container on-device")
             ELSE IF LivepushThrows(dockerfile)
             THEN InitThrow("DiffEngineInitError")
             ELSE LET container == FindContainer(lastDeviceStatus, serviceName)
                      livepush  == NewLivepush(dockerfile, context,
                                               container.containerId)
                      monitor   == NewMonitor(serviceName, context)
                  IN
                  /\ monitors' = monitors \cup {monitor}
                  /\ containers' = Put(containers, serviceName,
                                       [livepush |-> livepush,
                                        context  |-> context,
                                        monitor  |-> monitor])
                  /\ InitNext
    /\ UNCHANGED <<inputs, eventState>>

\* ---------------------------------------------------------- handleFSEvent
FileUpdates(updated, added, deleted) ==
    [updated |-> updated, added |-> added, deleted |-> deleted]

Classify_AddAsUpdated(fsEvent) ==
    IF fsEvent.type \in {"add", "change"}
    THEN [threw |-> FALSE,
          updates |-> FileUpdates(<<fsEvent.filename>>, <<>>, <<>>)]
    ELSE IF fsEvent.type = "unlink"
    THEN [threw |-> FALSE,
          updates |-> FileUpdates(<<>>, <<>>, <<fsEvent.filename>>)]
    ELSE [threw |-> TRUE, updates |-> FileUpdates(<<>>, <<>>, <<>>)]

Classify_AddKeepsUpdated(fsEvent) ==
    CASE fsEvent.type = "add" ->
            [threw |-> FALSE,
             updates |-> FileUpdates(<<fsEvent.filename>>, <<fsEvent.filename>>,
                                     <<>>)]
      [] fsEvent.type = "change" ->
            [threw |-> FALSE,
             updates |-> FileUpdates(<<fsEvent.filename>>, <<>>, <<>>)]
      [] fsEvent.type = "unlink" ->
            [threw |-> FALSE,
             updates |-> FileUpdates(<<>>, <<>>, <<fsEvent.filename>>)]
      [] OTHER ->
            [threw |-> TRUE, updates |-> FileUpdates(<<>>, <<>>, <<>>)]

Classify_DefaultAsChange(fsEvent) ==
    CASE fsEvent.type = "add" ->
            [threw |-> FALSE,
             updates |-> FileUpdates(<<>>, <<fsEvent.filename>>, <<>>)]
      [] fsEvent.type = "unlink" ->
            [threw |-> FALSE,
             updates |-> FileUpdates(<<>>, <<>>, <<fsEvent.filename>>)]
      [] OTHER ->
            [threw |-> FALSE,
             updates |-> FileUpdates(<<fsEvent.filename>>, <<>>, <<>>)]

\* The switch on fsEvent.type: the FileUpdates built, or a throw.
Classify(fsEvent) ==
    CASE fsEvent.type = "add" ->
            [threw |-> FALSE,
             updates |-> FileUpdates(<<>>, <<fsEvent.filename>>, <<>>)]
      [] fsEvent.type = "change" ->
            [threw |-> FALSE,
             updates |-> FileUpdates(<<fsEvent.filename>>, <<>>, <<>>)]
      [] fsEvent.type = "unlink" ->
            [threw |-> FALSE,
             updates |-> FileUpdates(<<>>, <<>>, <<fsEvent.filename>>)]
      [] OTHER ->
            [threw |-> TRUE, updates |-> FileUpdates(<<>>, <<>>, <<>>)]

RestartingMessage(serviceName) ==
    [text |-> "Restarting container for service", serviceName |-> serviceName]
DetectedMessage(serviceName) ==
    [text |-> "Detected changes for container", serviceName |-> serviceName]

Record(handler, query, perform, log) ==
    /\ handlers' = Append(handlers, handler)
    /\ queries' = Append(queries, query)
    /\ performs' = Append(performs, perform)
    /\ livepushLog' = Append(livepushLog, log)

Executing(h) == handlers[h].pc = "performActions"

CanDeliver_GlobalLock(serviceName) ==
    /\ initPc # "loop"
    /\ \E m \in monitors : m.serviceName = serviceName
    /\ Len(handlers) < MaxEvents
    /\ \A h \in DOMAIN handlers : ~Executing(h)

\* The event loop delivers a watcher callback only between run-to-completion
\* segments, hence not while the loop of init is running.
CanDeliver(serviceName) ==
    /\ initPc # "loop"
    /\ \E m \in monitors : m.serviceName = serviceName
    /\ Len(handlers) < MaxEvents

\* this.containers[fsEvent.serviceName].livepush
LookupLivepush_AnyContainer(serviceName) ==
    containers[CHOOSE s \in DOMAIN containers : TRUE].livepush
LookupLivepush(serviceName) == containers[serviceName].livepush

\* actions.length === 0
NoActions_Never(actions) == FALSE
NoActions(actions) == Len(actions) = 0

\* handleFSEvent from the callback to its first await (or its return or
\* throw).  needed is what livepush.actionsNeeded returns for the updates.
\* executeActions calls livepush.performActions before it first suspends.
HandleFSEvent(serviceName, type, filename, needed) ==
    /\ CanDeliver(serviceName)
    /\ LET fsEvent == [filename |-> filename, type |-> type,
                       serviceName |-> serviceName]
           classified == Classify(fsEvent)
           updates == classified.updates
       IN
       IF classified.threw
       THEN Record([event |-> fsEvent, pc |-> "threw", error |-> "Unknown event"],
                   <<>>, <<>>, <<>>)
       ELSE IF serviceName \notin DOMAIN containers
       THEN Record([event |-> fsEvent, pc |-> "threw", error |-> "TypeError"],
                   <<>>, <<>>, <<>>)
       ELSE LET livepush == LookupLivepush(fsEvent.serviceName)
                actions  == needed
                query    == [livepush |-> livepush, updates |-> updates,
                             result |-> needed]
            IN
            IF NoActions(actions)
            THEN Record([event |-> fsEvent, pc |-> "returned", error |-> NoError],
                        <<query>>, <<>>, <<>>)
            ELSE Record([event |-> fsEvent, pc |-> "performActions",
                         error |-> NoError],
                        <<query>>,
                        <<[livepush |-> livepush, updates |-> updates,
                           actions |-> actions]>>,
                        <<DetectedMessage(fsEvent.serviceName)>>)
    /\ UNCHANGED <<inputs, initState>>

\* ---------------------------------------------------------- executeActions
\* livepush.performActions resolves: log the restart message and return.
PerformActionsResolve(h) ==
    /\ initPc # "loop"
    /\ Executing(h)
    /\ handlers' = [handlers EXCEPT ![h].pc = "returned"]
    /\ livepushLog' = [livepushLog EXCEPT
            ![h] = Append(@, RestartingMessage(handlers[h].event.serviceName))]
    /\ UNCHANGED <<inputs, initState, queries, performs>>

PerformActionsReject_LogsRestart(h) ==
    /\ initPc # "loop"
    /\ Executing(h)
    /\ handlers' = [handlers EXCEPT ![h].pc = "threw",
                                    ![h].error = "ExecutionError"]
    /\ livepushLog' = [livepushLog EXCEPT
            ![h] = Append(@, RestartingMessage(handlers[h].event.serviceName))]
    /\ UNCHANGED <<inputs, initState, queries, performs>>

PerformActionsReject_DropsSession(h) ==
    /\ initPc # "loop"
    /\ Executing(h)
    /\ handlers' = [handlers EXCEPT ![h].pc = "threw",
                                    ![h].error = "ExecutionError"]
    /\ containers' = [s \in DOMAIN containers \ {handlers[h].event.serviceName}
                        |-> containers[s]]
    /\ UNCHANGED <<inputs, lastDeviceStatus, initPc, initError, index,
                   statusCalls, monitors, queries, performs, livepushLog>>

PerformActionsReject_Retries(h) ==
    /\ initPc # "loop"
    /\ Executing(h)
    /\ IF Len(performs[h]) < 2
       THEN /\ performs' = [performs EXCEPT ![h] = Append(@, @[1])]
            /\ UNCHANGED handlers
       ELSE /\ handlers' = [handlers EXCEPT ![h].pc = "threw",
                                            ![h].error = "ExecutionError"]
            /\ UNCHANGED performs
    /\ UNCHANGED <<inputs, initState, queries, livepushLog>>

\* livepush.performActions rejects: the rejection leaves executeActions and
\* handleFSEvent; nothing catches it.
PerformActionsReject(h) ==
    /\ initPc # "loop"
    /\ Executing(h)
    /\ handlers' = [handlers EXCEPT ![h].pc = "threw",
                                    ![h].error = "ExecutionError"]
    /\ UNCHANGED <<inputs, initState, queries, performs, livepushLog>>

FSEvent ==
    \E s \in ServiceNames, type \in EventTypes, f \in Filenames,
       needed \in ActionLists :
        HandleFSEvent(s, type, f, needed)

PerformActionsDone ==
    \E h \in DOMAIN handlers :
        PerformActionsResolve(h) \/ PerformActionsReject(h)

Next ==
    \/ InitCall
    \/ GetStatusResolve
    \/ GetStatusReject
    \/ DelayElapsed
    \/ InitVisit
    \/ FSEvent
    \/ PerformActionsDone

Spec == Init /\ [][Next]_vars

\* The event loop runs every resolved promise and every elapsed timer, and
\* init is called once the manager is constructed.
FairSpec ==
    /\ Spec
    /\ WF_vars(InitCall)
    /\ WF_vars(GetStatusResolve)
    /\ WF_vars(GetStatusReject)
    /\ WF_vars(DelayElapsed)
    /\ WF_vars(InitVisit)

\* ------------------------------------------------------------ properties
ConfigurationErrors ==
    {"Could not find a build task", "Could not detect dockerfile",
     "Could not find container on-device"}

HasSession(s) == s \in DOMAIN containers
HasMonitor(s) == \E m \in monitors : m.serviceName = s
ServiceOf(h) == handlers[h].event.serviceName
InitEnded == initPc \in {"done", "failed"}

\* C1: when init fails on a missing build task, a missing dockerfile or a
\* missing running container, the session map is empty and no filesystem
\* watcher has been registered.
C1_FailsClosed ==
    (initPc = "failed" /\ initError \in ConfigurationErrors)
        => (DOMAIN containers = {} /\ monitors = {})

\* C2: for each service at most one performActions execution is in flight.
C2_SerializedExecution ==
    \A s \in ServiceNames :
        Cardinality({h \in DOMAIN handlers : ServiceOf(h) = s /\ Executing(h)}) <= 1

\* C3: while an execution is in flight for one service, every filesystem
\* event of another monitored service can still be handled, and an execution
\* of another service can still complete.
C3_SessionsIndependent ==
    \A h \in DOMAIN handlers :
        Executing(h) =>
            /\ \A s \in ServiceNames \ {ServiceOf(h)} :
                  (HasMonitor(s) /\ Len(handlers) < MaxEvents) =>
                      \A type \in KnownTypes, f \in Filenames, needed \in ActionLists :
                          ENABLED HandleFSEvent(s, type, f, needed)
            /\ \A g \in DOMAIN handlers :
                  (ServiceOf(g) # ServiceOf(h) /\ Executing(g)) =>
                      ENABLED PerformActionsResolve(g)

\* C3 witness: two different services both have an execution in flight.
C3_Witness ==
    \E h, g \in DOMAIN handlers :
        ServiceOf(h) # ServiceOf(g) /\ Executing(h) /\ Executing(g)

SettleReturned ==
    \/ initPc \in {"loop", "done"}
    \/ initPc = "failed" /\ initError # "IOError"

\* C4: if the provider reports a non-'applied' state on its first N calls and
\* 'applied' on call N+1, awaitDeviceStateSettle eventually returns, and once
\* it has returned getStatus has been called exactly N+1 times and
\* lastDeviceStatus is the snapshot of call N+1.
C4_SettleWaitTerminates ==
    ~statusFails =>
        /\ <>SettleReturned
        /\ [](SettleReturned =>
                /\ statusCalls = applyingCalls + 1
                /\ lastDeviceStatus = StatusAt(applyingCalls + 1))

\* C4 witness: the settle-wait returned after at least one retry.
C4_Witness ==
    /\ SettleReturned
    /\ applyingCalls >= 1
    /\ statusCalls = applyingCalls + 1
    /\ lastDeviceStatus.appState = "applied"

RestartCount(h) ==
    Cardinality({i \in DOMAIN livepushLog[h] :
                    livepushLog[h][i].text = RestartingMessage("").text})

EmptyQuery(h) == Len(queries[h]) = 1 /\ queries[h][1].result = <<>>

\* C5: an event whose actionsNeeded query returned an empty list has no
\* performActions call and no restart notification, and its handler returned.
C5_NoOpShortCircuit ==
    \A h \in DOMAIN handlers :
        EmptyQuery(h) =>
            /\ performs[h] = <<>>
            /\ RestartCount(h) = 0
            /\ handlers[h].pc = "returned"

\* C5 witness: an event was handled whose query returned an empty list.
C5_Witness == \E h \in DOMAIN handlers : EmptyQuery(h)

\* C6: every performActions call of an event is made on the handle stored for
\* the event's service, bound to the container the settled status reports for
\* that service, with the batch that was given to actionsNeeded for that event
\* and the action list that query returned, in the same order.
C6_PerformOnOwnHandle ==
    \A h \in DOMAIN handlers :
        \A i \in DOMAIN performs[h] :
            LET call == performs[h][i]
                s == ServiceOf(h)
            IN
            /\ HasSession(s)
            /\ call.livepush = containers[s].livepush
            /\ call.livepush.context = ServiceContext(s)
            /\ HasContainer(lastDeviceStatus, s)
            /\ call.livepush.containerId =
                    FindContainer(lastDeviceStatus, s).containerId
            /\ Len(queries[h]) = 1
            /\ call.updates = queries[h][1].updates
            /\ call.updates = Classify(handlers[h].event).updates
            /\ call.actions = queries[h][1].result

\* C6 witness: events of two services are executing at once, each with its
\* own performActions call.
C6_Witness ==
    \E h, g \in DOMAIN handlers :
        /\ h < g
        /\ ServiceOf(h) # ServiceOf(g)
        /\ Executing(h) /\ Len(performs[h]) = 1
        /\ Executing(g) /\ Len(performs[g]) = 1

\* C7: an event has exactly one restart notification, naming its service,
\* once its performActions call has completed successfully, and none before
\* that, none when performActions failed and none when nothing was executed.
C7_RestartNotification ==
    \A h \in DOMAIN handlers :
        /\ RestartCount(h) =
              IF performs[h] # <<>> /\ handlers[h].pc = "returned" THEN 1 ELSE 0
        /\ Len(performs[h]) <= 1
        /\ \A i \in DOMAIN livepushLog[h] :
              livepushLog[h][i].serviceName = ServiceOf(h)

\* C7 witness: one execution completed and was notified, another one failed.
C7_Witness ==
    \E h, g \in DOMAIN handlers :
        /\ performs[h] # <<>> /\ handlers[h].pc = "returned" /\ RestartCount(h) = 1
        /\ handlers[g].error = "ExecutionError"

ExpectedBatch(type, p) ==
    [added   |-> IF type = "add" THEN <<p>> ELSE <<>>,
     updated |-> IF type = "change" THEN <<p>> ELSE <<>>,
     deleted |-> IF type = "unlink" THEN <<p>> ELSE <<>>]

\* C8: an add / change / unlink event with path p hands the diff engine a
\* batch whose added / updated / deleted field is [p] and whose two other
\* fields are empty; an event of any other kind fails with an unknown-event
\* error and hands the diff engine nothing.
C8_EventClassification ==
    \A h \in DOMAIN handlers :
        LET e == handlers[h].event IN
        IF e.type \in KnownTypes
        THEN /\ handlers[h].error # "Unknown event"
             /\ Len(queries[h]) = 1
             /\ queries[h][1].updates = ExpectedBatch(e.type, e.filename)
        ELSE /\ handlers[h].pc = "threw"
             /\ handlers[h].error = "Unknown event"
             /\ queries[h] = <<>>

\* C8 witness: an add event and an event of an unknown kind were handled.
C8_Witness ==
    \E h, g \in DOMAIN handlers :
        /\ handlers[h].event.type = "add" /\ Len(queries[h]) = 1
        /\ handlers[g].event.type \notin KnownTypes

Qualifies(s) ==
    /\ HasBuildTask(s)
    /\ build[s]
    /\ FindBuildTask(s).dockerfile # NoDockerfile
    /\ s \in running

\* C9: when the construction of the diff engine fails for one service, every
\* other qualifying service of the composition has its session and watcher.
C9_DiffEngineFailureIsLocal ==
    (initPc = "failed" /\ initError = "DiffEngineInitError") =>
        \A s \in ServiceNames :
            (Qualifies(s) /\ ~LivepushThrows(FindBuildTask(s).dockerfile))
                => (HasSession(s) /\ HasMonitor(s))

FailedOn(s) ==
    initPc = "failed" /\ initError # "IOError" /\ services[index] = s

\* C10 as claimed: a service that declares no build gets no session and no
\* watcher, and init raises no error on account of it.
C10_ImageOnlySkipped ==
    \A s \in ServiceNames :
        ~build[s] => (~HasSession(s) /\ ~HasMonitor(s) /\ ~FailedOn(s))

\* C10 as amended: a service that declares no build and has a matching build
\* task gets no session and no watcher, and init raises no error on account
\* of it.
C10_ImageOnlyWithTaskSkipped ==
    \A s \in ServiceNames :
        (~build[s] /\ HasBuildTask(s))
            => (~HasSession(s) /\ ~HasMonitor(s) /\ ~FailedOn(s))

\* C10 witness: init passed over an image-only service that has neither a
\* dockerfile nor a running container, and created the session of the next.
C10_Witness ==
    /\ initPc = "done"
    /\ \E s \in ServiceNames :
          /\ ~build[s] /\ HasBuildTask(s)
          /\ FindBuildTask(s).dockerfile = NoDockerfile
          /\ s \notin running
          /\ services[1] = s
    /\ HasSession(services[2])

SessionsOnLastSnapshot ==
    /\ (DOMAIN containers # {} \/ monitors # {}) =>
          /\ lastDeviceStatus.appState = "applied"
          /\ lastDeviceStatus = StatusAt(statusCalls)
    /\ \A s \in DOMAIN containers :
          /\ HasContainer(lastDeviceStatus, s)
          /\ containers[s].livepush.containerId =
                FindContainer(lastDeviceStatus, s).containerId

\* C11: sessions and watchers exist only when the last fetched snapshot is
\* 'applied', a step that creates one starts from such a snapshot, every
\* session's container identity is the one that snapshot reports, and once an
\* 'applied' snapshot is cached getStatus is not called again.
C11_FactoryReadsSettledState ==
    /\ []SessionsOnLastSnapshot
    /\ [][(containers' # containers \/ monitors' # monitors)
              => lastDeviceStatus.appState = "applied"]_vars
    /\ [][lastDeviceStatus.appState = "applied"
              => (statusCalls' = statusCalls
                  /\ lastDeviceStatus' = lastDeviceStatus)]_vars

\* C11 witness: a session exists whose container identity comes from the
\* second snapshot, the first one having been 'applying'.
C11_Witness ==
    /\ applyingCalls >= 1
    /\ \E s \in DOMAIN containers :
          containers[s].livepush.containerId = ContainerId(s, applyingCalls + 1)

UnknownEvent(h) == handlers[h].event.type \notin KnownTypes

\* A handled event of a known kind was diffed, and executed when actions
\* were needed.
DiffedAndExecuted(h) ==
    /\ Len(queries[h]) = 1
    /\ queries[h][1].result # <<>> => Len(performs[h]) = 1

\* Every event of a known kind can be delivered for every monitored service.
EventsStillAccepted ==
    \A s \in ServiceNames :
        (HasMonitor(s) /\ initPc # "loop" /\ Len(handlers) < MaxEvents) =>
            \A type \in KnownTypes, f \in Filenames, needed \in ActionLists :
                ENABLED HandleFSEvent(s, type, f, needed)

\* C13: an event of an unknown kind makes no actionsNeeded query and no
\* performActions call and leaves the sessions and watchers as they are;
\* after it, events of every monitored service are still accepted, and those
\* handled were diffed and executed.
C13_UnknownEventIsLocal ==
    /\ [](\A h \in DOMAIN handlers :
            UnknownEvent(h) =>
                /\ handlers[h].pc = "threw"
                /\ queries[h] = <<>>
                /\ performs[h] = <<>>
                /\ EventsStillAccepted
                /\ \A g \in DOMAIN handlers :
                      (g > h /\ ~UnknownEvent(g)) => DiffedAndExecuted(g))
    /\ [][(Len(handlers') > Len(handlers) /\ UnknownEvent(Len(handlers))')
              => (containers' = containers /\ monitors' = monitors)]_vars

\* C13 witness: after an event of an unknown kind, a later event of the same
\* service is executing.
C13_Witness ==
    \E h, g \in DOMAIN handlers :
        /\ h < g
        /\ UnknownEvent(h)
        /\ ServiceOf(g) = ServiceOf(h)
        /\ Executing(g) /\ Len(performs[g]) = 1

ExecutionFailed(h) == handlers[h].error = "ExecutionError"

\* C14: every event has at most one performActions call, exactly one when its
\* actionsNeeded query returned a non-empty list, also when that call failed;
\* after a failure the session of the service is still stored, its events are
\* still accepted, and those handled later were diffed and executed.
C14_FailedExecutionNotRetried ==
    \A h \in DOMAIN handlers :
        /\ Len(performs[h]) <= 1
        /\ (Len(queries[h]) = 1 /\ queries[h][1].result # <<>>)
              => Len(performs[h]) = 1
        /\ ExecutionFailed(h) =>
              /\ handlers[h].pc = "threw"
              /\ Len(performs[h]) = 1
              /\ HasSession(ServiceOf(h)) /\ HasMonitor(ServiceOf(h))
              /\ Len(handlers) < MaxEvents =>
                    \A type \in KnownTypes, f \in Filenames, needed \in ActionLists :
                        ENABLED HandleFSEvent(ServiceOf(h), type, f, needed)
              /\ \A g \in DOMAIN handlers :
                    (g > h /\ ServiceOf(g) = ServiceOf(h) /\ ~UnknownEvent(g))
                        => DiffedAndExecuted(g)

\* C14 witness: an execution failed and a later event of the same service is
\* executing.
C14_Witness ==
    \E h, g \in DOMAIN handlers :
        /\ h < g
        /\ ExecutionFailed(h)
        /\ ServiceOf(g) = ServiceOf(h)
        /\ Executing(g) /\ Len(performs[g]) = 1

RECURSIVE QueriesOf(_, _)
\* Number of actionsNeeded queries made by the first n handled events for s.
QueriesOf(s, n) ==
    IF n = 0 THEN 0
    ELSE QueriesOf(s, n - 1) + (IF ServiceOf(n) = s THEN Len(queries[n]) ELSE 0)

KnownEventsOf(s) ==
    Cardinality({h \in DOMAIN handlers : ServiceOf(h) = s /\ ~UnknownEvent(h)})

PathsIn(updates) ==
    Len(updates.added) + Len(updates.updated) + Len(updates.deleted)

\* C15: for each service the number of actionsNeeded queries equals the
\* number of events of known kinds delivered for it, and every query carries
\* a batch with exactly one path, the path of its event.
C15_NoCoalescing ==
    /\ \A s \in ServiceNames : QueriesOf(s, Len(handlers)) = KnownEventsOf(s)
    /\ \A h \in DOMAIN handlers :
          \A i \in DOMAIN queries[h] :
              /\ PathsIn(queries[h][i].updates) = 1
              /\ \A field \in {"added", "updated", "deleted"} :
                    \A j \in DOMAIN queries[h][i].updates[field] :
                        queries[h][i].updates[field][j] = handlers[h].event.filename

\* C15 witness: a second event of a service was queried while the execution
\* of its first event was still in flight.
C15_Witness ==
    \E h, g \in DOMAIN handlers :
        /\ h < g
        /\ ServiceOf(g) = ServiceOf(h)
        /\ Executing(h)
        /\ Len(queries[g]) = 1
        /\ KnownEventsOf(ServiceOf(h)) = 2

\* C16: once init has ended, no step adds, removes or replaces a session or a
\* watcher; each session keeps the context of its service and the container
\* identity of the settled snapshot; there is at most one watcher, and so one
\* session, per service name.
C16_EventsLeaveSessionsUnchanged ==
    /\ [][InitEnded => (containers' = containers /\ monitors' = monitors)]_vars
    /\ [](\A s \in DOMAIN containers :
            /\ containers[s].context = ServiceContext(s)
            /\ containers[s].livepush.context = ServiceContext(s)
            /\ containers[s].livepush.containerId =
                  ContainerId(s, applyingCalls + 1)
            /\ containers[s].monitor \in monitors
            /\ Cardinality({m \in monitors : m.serviceName = s}) = 1)
    /\ [](\A m \in monitors : HasSession(m.serviceName))

\* C16 witness: init has returned with two sessions, one event was executed
\* successfully and one execution failed.
C16_Witness ==
    /\ initPc = "done"
    /\ DOMAIN containers = ServiceNames
    /\ \E h, g \in DOMAIN handlers :
          /\ ExecutionFailed(h)
          /\ performs[g] # <<>> /\ handlers[g].pc = "returned"

\* The getStatus call that rejects has been made and has been answered.
StatusCallFailed ==
    statusFails /\ statusCalls >= applyingCalls + 1 /\ initPc # "getStatus"

\* C17: once a getStatus call has failed, init has failed with that error,
\* no session and no watcher exists, no event was handled, and getStatus is
\* never called again.
C17_StatusFailureNotSwallowed ==
    /\ [](StatusCallFailed =>
            /\ initPc = "failed"
            /\ initError = "IOError"
            /\ statusCalls = applyingCalls + 1
            /\ DOMAIN containers = {}
            /\ monitors = {}
            /\ handlers = <<>>)
    /\ [](initError = "IOError" => StatusCallFailed)
    /\ [][StatusCallFailed => statusCalls' = statusCalls]_vars

\* C17 witness: getStatus failed on a retry, after an 'applying' snapshot.
C17_Witness ==
    /\ StatusCallFailed
    /\ applyingCalls >= 1
    /\ lastDeviceStatus.appState = "applying"

\* C18: every registered watcher has its service's session stored whenever an
\* event can be delivered, and no handled event found the entry of its
\* service missing: each one of a known kind reached its actionsNeeded query.
C18_SessionStoredBeforeEvents ==
    /\ \A m \in monitors :
          initPc # "loop" => HasSession(m.serviceName)
    /\ \A h \in DOMAIN handlers :
          /\ handlers[h].error # "TypeError"
          /\ HasSession(ServiceOf(h))
          /\ ~UnknownEvent(h) =>
                /\ Len(queries[h]) = 1
                /\ queries[h][1].livepush = containers[ServiceOf(h)].livepush

\* C18 witness: init failed on the second service and an event of the first
\* service, whose session exists, was handled.
C18_Witness ==
    /\ initPc = "failed"
    /\ index = 2
    /\ \E h \in DOMAIN handlers :
          /\ ServiceOf(h) = services[1]
          /\ Len(queries[h]) = 1
====
